---- MODULE Spec2Model ----
(***************************************************************************)
(* Model of cqhttp/__init__.py: the handler registry of CQHttp             *)
(* (_deco_maker), and the webhook entry point CQHttp._handle (signature     *)
(* gate, payload classification, priority-group dispatch).                  *)
(*                                                                          *)
(* Python values are represented as follows.                                *)
(*   - None is a reserved string that no payload field, secret or header    *)
(*     takes as its value.                                                  *)
(*   - a dict is a function whose DOMAIN is its key set.                    *)
(*   - a handler's return value is a record [kind, elems]: kind is the      *)
(*     Python type, elems the keys of a dict, the items of a list or the    *)
(*     characters of a str, in order.                                       *)
(*   - the wrapper stored by a registration only forwards to func, so a     *)
(*     registered handler is identified by the function it runs.            *)
(***************************************************************************)
EXTENDS Integers, Sequences, FiniteSets, TLC

\* ------------------------------------------------------------------ bounds
\* The number of registrations the application performs.
MaxRegs == 2

\* Values the application passes as group=... to the decorators.
GroupVals == {-1, 0, 3}

\* The application's handler functions.
Funcs == {"f1", "f2"}

\* The *types tuples the application passes to the decorators.
TypeTuples == {<<>>, <<"private">>, <<"group", "*">>}

\* ------------------------------------------------------------ Python values
None == "<None>"

Truthy(v) == v # None /\ v # ""

EmptyDict == [x \in {} |-> x]

\* d.get(k), the default being None
DictGet(d, k) == IF k \in DOMAIN d THEN d[k] ELSE None

\* d[k] = v
DictSet(d, k, v) == [x \in DOMAIN d \cup {k} |-> IF x = k THEN v ELSE d[x]]

\* defaultdict(dict).__getitem__: a missing key is inserted with a fresh dict
DefaultDictTouch(d, k) == IF k \in DOMAIN d THEN d ELSE DictSet(d, k, EmptyDict)

\* x in list
InList(x, s) == \E i \in 1..Len(s) : s[i] = x

\* list.sort() on integers, as an insertion sort
Insert(x, s) ==
  LET smaller == {i \in 1..Len(s) : s[i] <= x}
      k == Cardinality(smaller)
  IN SubSeq(s, 1, k) \o <<x>> \o SubSeq(s, k + 1, Len(s))

RECURSIVE SortList(_)
SortList(s) == IF s = <<>> THEN <<>> ELSE Insert(s[Len(s)], SortList(SubSeq(s, 1, Len(s) - 1)))

\* ---------------------------------------------------------- handler results
Dict(keys) == [kind |-> "dict", elems |-> keys]
List(items) == [kind |-> "list", elems |-> items]
Str(chars) == [kind |-> "str", elems |-> chars]
NoneResult == [kind |-> "NoneType", elems |-> <<>>]

\* What the application's handlers return.
Results ==
  { Dict(<<"pass">>), Dict(<<"reply">>), NoneResult,
    Str(<<>>), Str(<<"b", "y", "p", "a", "s", "s">>), List(<<"pass">>) }

\* 'pass' in result raises TypeError when result is None
PassTestRaises(r) == r.kind = "NoneType"

\* 'pass' in result: key membership for a dict, item membership for a list,
\* substring search for a str
PassIn(r) ==
  IF r.kind = "str"
  THEN \E i \in 1..(Len(r.elems) - 3) : SubSeq(r.elems, i, i + 3) = <<"p", "a", "s", "s">>
  ELSE \E i \in 1..Len(r.elems) : r.elems[i] = "pass"

\* ------------------------------------------------------------------- state
VARIABLES
  secret,       \* self._secret
  groups,       \* self._groups
  handlers,     \* self._handlers: group -> post_type -> key -> handler
  nregs,        \* number of registrations performed
  usedGroups,   \* history: the group values registrations were called with
  pc,           \* "idle", "scan" (in the for loop of _handle) or "done"
  request,      \* the request being handled: [headers, json]
  post_type,    \* local of _handle
  handler_key,  \* local of _handle
  pos,          \* position of the list iterator of `for group in self._groups`
  invoked,      \* history: the handler calls of this request, in order
  response,     \* what _handle returned, aborted with or raised
  nodes,        \* the _ApiClient objects alive, the CQHttp instance first
  last,         \* the last use of the API client: its inputs and its outcome
  reg,          \* the registration in progress and the line it has reached
  plain,        \* the groups whose self._handlers entry is a plain dict
  walk          \* history: the groups the for loop of this request has yielded

vars == <<secret, groups, handlers, nregs, usedGroups, pc, request, post_type,
          handler_key, pos, invoked, response, nodes, last, reg, plain, walk>>

\* no decorator call is under way
NoReg == [phase |-> "idle", ptype |-> None, types |-> <<>>, group |-> 0, func |-> None]

Api == <<nodes, last>>

registry == <<groups, handlers>>

NoRequest == [headers |-> EmptyDict, json |-> EmptyDict]
NoResponse == [outcome |-> "none", code |-> 0, body |-> NoneResult]

\* the secret=... values CQHttp is constructed with: none, empty, a real one
Secrets == {None, "", "abc"}

\* ------------------------------------------------------------- API client
\* A URL or an attribute name is a sequence of symbols: "/" is the slash and
\* every other symbol is text without a slash. NoUrl is None.
NoUrl == <<None>>

\* truth of a str-or-None value
UrlTruthy(u) == u # NoUrl /\ u # <<>>

\* str.rstrip('/')
RECURSIVE RStrip(_)
RStrip(u) ==
  IF u # <<>> /\ u[Len(u)] = "/" THEN RStrip(SubSeq(u, 1, Len(u) - 1)) ELSE u

\* the value None where an object is expected
NoneValue == [kind |-> "None", url |-> NoUrl, token |-> None]

\* _ApiClient.__init__
ApiClient(api_root, access_token) ==
  [kind |-> "node",
   url |-> IF UrlTruthy(api_root) THEN RStrip(api_root) ELSE NoUrl,
   token |-> access_token]

\* an attribute access that drops the access token
GetAttrValueNoToken(node, item) ==
  IF UrlTruthy(node.url) THEN ApiClient(node.url \o <<"/">> \o item, None) ELSE NoneValue

\* _ApiClient.__getattr__
GetAttrValue(node, item) ==
  IF UrlTruthy(node.url)
  THEN ApiClient(node.url \o <<"/">> \o item, node.token)
  ELSE NoneValue

NoOutcome == [kind |-> "none", exc |-> "", status_code |-> 0, retcode |-> None, value |-> None]
NoResp == [status_code |-> 0, body |-> EmptyDict]
NoCall ==
  [op |-> "none", target |-> 0, ctx |-> EmptyDict, resp |-> NoResp, endpoint |-> <<>>,
   got |-> NoneValue, posts |-> <<>>, outcome |-> NoOutcome]

\* CQHttp.__init__ with secret drawn from S
InitWith(S) ==
  /\ secret \in S
  /\ groups = <<>>
  /\ handlers = EmptyDict
  /\ nregs = 0
  /\ usedGroups = {}
  /\ pc = "idle"
  /\ request = NoRequest
  /\ post_type = None
  /\ handler_key = None
  /\ pos = 0
  /\ invoked = <<>>
  /\ response = NoResponse
  /\ nodes = <<[node |-> ApiClient(NoUrl, None), chain |-> <<>>]>>
  /\ last = NoCall
  /\ reg = NoReg
  /\ plain = {}
  /\ walk = <<>>

Init == InitWith({None})

\* ------------------------------------------------------------ registration
PostTypes == {"message", "event", "request"}

\* the keys one registration writes
RegKeys(types) == IF Len(types) > 0 THEN {types[i] : i \in 1..Len(types)} ELSE {"*"}

\* the registration without its sort
GroupsAfterUnsorted(gs, group) == IF InList(group, gs) THEN gs ELSE Append(gs, group)

\* `if group not in self._groups: append; sort`
GroupsAfter(gs, group) == IF InList(group, gs) THEN gs ELSE SortList(Append(gs, group))

\* a registry in which the first registration of a key wins
StoreHandlerKeepFirst(bucket, t, func) ==
  IF t \in DOMAIN bucket THEN bucket ELSE DictSet(bucket, t, func)

\* the value of bucket[t] = wrapper
StoreHandler(bucket, t, func) == DictSet(bucket, t, func)

\* `for t in types: self._handlers[group][post_type][t] = wrapper`
RECURSIVE StoreEach(_, _, _)
StoreEach(bucket, types, func) ==
  IF types = <<>> THEN bucket
  ELSE StoreEach(StoreHandler(bucket, Head(types), func), Tail(types), func)

\* a registration that makes the group's bucket set anew every time
HandlersAfterReset(hs, gs, ptype, types, group, func) ==
  LET hs1 == DictSet(hs, group, EmptyDict)
      cats == DefaultDictTouch(hs1[group], ptype)
      bucket == IF Len(types) > 0
                THEN StoreEach(cats[ptype], types, func)
                ELSE StoreHandler(cats[ptype], "*", func)
  IN DictSet(hs1, group, DictSet(cats, ptype, bucket))

\* self._handlers after decorator(func) of deco_decorator(*types, group=group)
HandlersAfter(hs, gs, ptype, types, group, func) ==
  LET hs1 == IF InList(group, gs) THEN hs ELSE DictSet(hs, group, EmptyDict)
      cats == DefaultDictTouch(hs1[group], ptype)
      bucket == IF Len(types) > 0
                THEN StoreEach(cats[ptype], types, func)
                ELSE StoreHandler(cats[ptype], "*", func)
  IN DictSet(hs1, group, DictSet(cats, ptype, bucket))

Dispatch == <<pc, request, post_type, handler_key, pos, invoked, response, walk>>

\* decorator(func) run from line 81 to line 95 with nothing in between
Register(ptype, types, group, func) ==
  /\ pc = "idle"
  /\ reg.phase = "idle"
  /\ nregs < MaxRegs
  /\ groups' = GroupsAfter(groups, group)
  /\ handlers' = HandlersAfter(handlers, groups, ptype, types, group, func)
  /\ nregs' = nregs + 1
  /\ usedGroups' = usedGroups \cup {group}
  /\ UNCHANGED <<secret, Dispatch, Api, reg, plain>>

\* ---------------------------------------------------------------- requests
XSignature == "X-Signature"

\* hmac.new(sec, body, 'sha1').hexdigest(): a digest is determined by, and
\* determines, the key and the body it was computed from
HexDigest(key, body) == <<key, body>>

\* the X-Signature value a sender holding `key` attaches to `body`
Signed(key, body) == <<"sha1=">> \o HexDigest(key, body)

\* the keys senders sign with
SignKeys == {"abc", "xyz"}

\* a JSON object with post_type pt (absent when None) and field f set to v
\* (absent when None)
Payload(pt, f, v) ==
  [k \in (IF pt = None THEN {} ELSE {"post_type"}) \cup (IF v = None THEN {} ELSE {f}) |->
     IF k = "post_type" THEN pt ELSE v]

\* payloads carrying a known post_type and its own discriminator
ValidPayloads ==
  { Payload("message", "message_type", v) : v \in {"private", "group", "*"} }
    \cup { Payload("event", "event", v) : v \in {"private"} }

\* payloads without post_type, with an unknown one, without the discriminator
\* of their post_type, or with an empty one
MalformedPayloads ==
  { Payload(None, "message_type", "private"),
    Payload("notice", "message_type", "private"),
    Payload("message", "message_type", None),
    Payload("message", "message_type", ""),
    Payload("message", "event", "private"),
    Payload("event", "message_type", "private"),
    Payload("request", "request_type", "") }

Payloads == ValidPayloads \cup MalformedPayloads

HeaderSets(body) ==
  {EmptyDict} \cup {[h \in {XSignature} |-> Signed(k, body)] : k \in SignKeys}

RequestsWith(body) == {[headers |-> hd, json |-> body] : hd \in HeaderSets(body)}

Requests == UNION {RequestsWith(body) : body \in Payloads}

\* a gate that accepts every request carrying the header
SignatureGateAnyHeader(sec, req) ==
  IF Truthy(sec) /\ XSignature \notin DOMAIN req.headers THEN 401 ELSE 0

\* lines 98-112: the status the signature check aborts with, 0 when it passes
SignatureGate(sec, req) ==
  IF Truthy(sec)
  THEN IF XSignature \notin DOMAIN req.headers THEN 401
       ELSE IF req.headers[XSignature] # <<"sha1=">> \o HexDigest(sec, req.json) THEN 403
       ELSE 0
  ELSE 0

\* the pk_pair table of lines 121-123
DiscriminatorField ==
  [message |-> "message_type", event |-> "event", request |-> "request_type"]

\* a classification that rejects only an absent discriminator
ClassifyKeepsFalsy(json) ==
  LET pt == DictGet(json, "post_type")
  IN IF pt \notin PostTypes
     THEN [abort |-> 400, post_type |-> pt, handler_key |-> None]
     ELSE LET key == DictGet(json, DiscriminatorField[pt])
          IN IF key = None
             THEN [abort |-> 400, post_type |-> pt, handler_key |-> key]
             ELSE [abort |-> 0, post_type |-> pt, handler_key |-> key]

\* lines 114-136: [abort, post_type, handler_key]
Classify(json) ==
  LET pt == DictGet(json, "post_type")
  IN IF pt \notin PostTypes
     THEN [abort |-> 400, post_type |-> pt, handler_key |-> None]
     ELSE LET key == DictGet(json, DiscriminatorField[pt])
          IN IF ~Truthy(key)
             THEN [abort |-> 400, post_type |-> pt, handler_key |-> key]
             ELSE [abort |-> 0, post_type |-> pt, handler_key |-> key]

Abort(status) == [outcome |-> "abort", code |-> status, body |-> NoneResult]
Return(result) == [outcome |-> "return", code |-> 0, body |-> result]
Raise == [outcome |-> "raise", code |-> 0, body |-> NoneResult]

\* KeyError: self._handlers[group] is a plain dict without the post type
RaiseKeyError == [outcome |-> "raise", code |-> 0, body |-> Str(<<"KeyError">>)]

\* a _handle that classifies the payload before it checks the signature
HandleBeginClassifyFirst(req) ==
  /\ pc = "idle"
  /\ request' = req
  /\ invoked' = <<>>
  /\ pos' = 0
  /\ walk' = <<>>
  /\ LET gate == SignatureGate(secret, req)
         cls == Classify(req.json)
     IN /\ post_type' = cls.post_type
        /\ handler_key' = cls.handler_key
        /\ IF cls.abort # 0
           THEN pc' = "done" /\ response' = Abort(cls.abort)
           ELSE IF gate # 0
                THEN pc' = "done" /\ response' = Abort(gate)
                ELSE pc' = "scan" /\ response' = NoResponse
  /\ UNCHANGED <<secret, groups, handlers, nregs, usedGroups, Api, reg, plain>>

\* lines 98-139 of _handle: signature check, then classification
HandleBegin(req) ==
  /\ pc = "idle"
  /\ request' = req
  /\ invoked' = <<>>
  /\ pos' = 0
  /\ walk' = <<>>
  /\ LET gate == SignatureGate(secret, req)
         cls == Classify(req.json)
     IN IF gate # 0
        THEN /\ pc' = "done"
             /\ response' = Abort(gate)
             /\ UNCHANGED <<post_type, handler_key>>
        ELSE /\ post_type' = cls.post_type
             /\ handler_key' = cls.handler_key
             /\ IF cls.abort # 0
                THEN pc' = "done" /\ response' = Abort(cls.abort)
                ELSE pc' = "scan" /\ response' = NoResponse
  /\ UNCHANGED <<secret, groups, handlers, nregs, usedGroups, Api, reg, plain>>

\* a lookup that tries the wildcard first
LookupWildcardFirst(bucket, key) ==
  IF DictGet(bucket, "*") # None THEN DictGet(bucket, "*") ELSE DictGet(bucket, key)

\* lines 142-144: exact key, then wildcard; None when neither is present
Lookup(bucket, key) ==
  IF DictGet(bucket, key) # None THEN DictGet(bucket, key) ELSE DictGet(bucket, "*")

\* an iterator that walks the list from its end
ListIterNextReversed(list, p) == [item |-> list[Len(list) - p], pos |-> p + 1]

\* an iterator that yields without advancing
ListIterNextStuck(list, p) == [item |-> list[p + 1], pos |-> p]

\* next() of the list iterator of line 141, p items having been yielded
ListIterNext(list, p) == [item |-> list[p + 1], pos |-> p + 1]

\* lines 141-153: one turn of `for group in self._groups`, or its exhaustion
Iterate ==
  /\ pc = "scan"
  /\ IF pos >= Len(groups)
     THEN /\ pc' = "done"
          /\ response' = Return(Str(<<>>))
          /\ UNCHANGED <<handlers, pos, invoked, plain, walk>>
     ELSE LET it == ListIterNext(groups, pos)
              group == it.item
          IN /\ pos' = it.pos
             /\ walk' = Append(walk, group)
             /\ IF group \notin DOMAIN handlers \/ group \in plain
                THEN \* self._handlers is a defaultdict(dict): the missing
                     \* entry is made as a plain dict, whose [post_type] fails
                     /\ handlers' = DictSet(handlers, group, EmptyDict)
                     /\ plain' = plain \cup {group}
                     /\ pc' = "done"
                     /\ response' = RaiseKeyError
                     /\ UNCHANGED invoked
                ELSE LET cats == DefaultDictTouch(handlers[group], post_type)
                         handler == Lookup(cats[post_type], handler_key)
                     IN /\ handlers' = DictSet(handlers, group, cats)
                        /\ UNCHANGED plain
                        /\ IF handler = None
                           THEN UNCHANGED <<pc, invoked, response>>
                           ELSE \E result \in Results :
                                  /\ invoked' = Append(invoked,
                                        [group |-> group, handler |-> handler,
                                         result |-> result])
                                  /\ IF PassTestRaises(result)
                                     THEN pc' = "done" /\ response' = Raise
                                     ELSE IF PassIn(result)
                                          THEN UNCHANGED <<pc, response>>
                                          ELSE pc' = "done" /\ response' = Return(result)
  /\ UNCHANGED <<secret, groups, nregs, usedGroups, request, post_type, handler_key, Api, reg>>

\* the response is sent and the request discarded
Finish ==
  /\ pc = "done"
  /\ pc' = "idle"
  /\ request' = NoRequest
  /\ post_type' = None
  /\ handler_key' = None
  /\ pos' = 0
  /\ invoked' = <<>>
  /\ response' = NoResponse
  /\ walk' = <<>>
  /\ UNCHANGED <<secret, groups, handlers, nregs, usedGroups, Api, reg, plain>>

\* the decorator uses of the application: on_<ptype>(*types)
Decorations ==
  { [ptype |-> "message", types |-> <<>>],
    [ptype |-> "message", types |-> <<"private">>],
    [ptype |-> "message", types |-> <<"group", "*">>],
    [ptype |-> "event", types |-> <<>>] }

Unsigned(payloads) == {[headers |-> EmptyDict, json |-> body] : body \in payloads}

\* An application without a secret: it registers handlers and serves unsigned
\* requests; a registration never overlaps a request being handled.
Next ==
  \/ \E d \in Decorations, group \in GroupVals, func \in Funcs :
       Register(d.ptype, d.types, group, func)
  \/ \E req \in Unsigned(Payloads) : HandleBegin(req)
  \/ Iterate
  \/ Finish

Spec == Init /\ [][Next]_vars

\* The registration phase alone, over every decorator and every *types tuple.
NextReg ==
  \E ptype \in PostTypes, types \in TypeTuples, group \in GroupVals, func \in Funcs :
    Register(ptype, types, group, func)

SpecReg == Init /\ [][NextReg]_vars

\* An application constructed with any secret, serving requests that carry no
\* signature, a signature made with its secret, or one made with another key.
NextGate ==
  \/ \E func \in Funcs : Register("message", <<>>, 0, func)
  \/ \E req \in Requests : HandleBegin(req)
  \/ Iterate
  \/ Finish

SpecGate == InitWith(Secrets) /\ [][NextGate]_vars

\* ------------------------------------ registration while a request is served
\* line 81 and, for a new group, line 82
RegBegin(ptype, types, group, func) ==
  /\ reg.phase = "idle"
  /\ nregs < MaxRegs
  /\ nregs' = nregs + 1
  /\ usedGroups' = usedGroups \cup {group}
  /\ IF InList(group, groups)
     THEN /\ UNCHANGED groups
          /\ reg' = [phase |-> "store", ptype |-> ptype, types |-> types, group |-> group,
                     func |-> func]
     ELSE /\ groups' = Append(groups, group)
          /\ reg' = [phase |-> "appended", ptype |-> ptype, types |-> types,
                     group |-> group, func |-> func]
  /\ UNCHANGED <<secret, handlers, Dispatch, Api, plain>>

\* line 83
RegSort ==
  /\ reg.phase = "appended"
  /\ groups' = SortList(groups)
  /\ reg' = [reg EXCEPT !.phase = "sorted"]
  /\ UNCHANGED <<secret, handlers, nregs, usedGroups, Dispatch, Api, plain>>

\* line 84: the entry of the group becomes a fresh defaultdict(dict)
RegBucket ==
  /\ reg.phase = "sorted"
  /\ handlers' = DictSet(handlers, reg.group, EmptyDict)
  /\ plain' = plain \ {reg.group}
  /\ reg' = [reg EXCEPT !.phase = "store"]
  /\ UNCHANGED <<secret, groups, nregs, usedGroups, Dispatch, Api>>

\* lines 86-90, the group being known by now
RegStore ==
  /\ reg.phase = "store"
  /\ handlers' = HandlersAfter(handlers, groups, reg.ptype, reg.types, reg.group, reg.func)
  /\ reg' = NoReg
  /\ UNCHANGED <<secret, groups, nregs, usedGroups, Dispatch, Api, plain>>

\* the one request the concurrent host serves: a private message
PrivateMessage == {Payload("message", "message_type", "private")}

\* An application whose decorators run in one thread while the host serves
\* requests in another: each line of a registration is a step of its own.
NextConc ==
  \/ \E d \in Decorations, group \in GroupVals : RegBegin(d.ptype, d.types, group, "f1")
  \/ RegSort
  \/ RegBucket
  \/ RegStore
  \/ \E req \in Unsigned(PrivateMessage) : HandleBegin(req)
  \/ Iterate
  \/ Finish

SpecConc == Init /\ [][NextConc]_vars

\* ------------------------------------------------------ API client in use
\* The number of _ApiClient objects the application keeps.
MaxNodes == 3

\* the api_root=... values: none, empty, bare slash, with and without
\* trailing slashes
ApiRoots == {NoUrl, <<>>, <<"/">>, <<"h">>, <<"h", "/">>, <<"h", "/", "/">>}

\* the access_token=... values
Tokens == {None, "", "t"}

\* the attribute names the application uses
Names == {<<"get_status">>, <<"send_group_msg">>}

\* Response.ok of the transport: no client or server error status
Ok(status_code) == status_code < 400

\* what the remote end answers: retcodes are written as their decimal text
HttpStatuses == {200, 201, 404}

JsonBody(st, rc, d) ==
  [k \in (IF st = None THEN {} ELSE {"status"}) \cup (IF rc = None THEN {} ELSE {"retcode"})
          \cup (IF d = None THEN {} ELSE {"data"}) |->
     IF k = "status" THEN st ELSE IF k = "retcode" THEN rc ELSE d]

HttpResponses ==
  {[status_code |-> sc, body |-> JsonBody(st, rc, d)] :
     sc \in HttpStatuses, st \in {"ok", "failed"}, rc \in {"99", "102"}, d \in {None, "d"}}

\* the answers a send gets: delivered, or refused by the server
SendResponses ==
  {[status_code |-> 200, body |-> JsonBody("ok", None, "d")],
   [status_code |-> 404, body |-> EmptyDict]}

\* Error(status_code, retcode)
Error(status_code, retcode) ==
  [kind |-> "raise", exc |-> "Error", status_code |-> status_code, retcode |-> retcode,
   value |-> None]

\* Error102(): Error.__init__(200, 102)
Error102 ==
  [kind |-> "raise", exc |-> "Error102", status_code |-> 200, retcode |-> "102", value |-> None]

\* an _error that looks at the retcode alone
ErrorForAnyStatus(status_code, retcode) ==
  IF retcode = "102" THEN Error102 ELSE Error(status_code, retcode)

\* _error
ErrorFor(status_code, retcode) ==
  IF status_code = 200 /\ retcode = "102" THEN Error102 ELSE Error(status_code, retcode)

Returned(v) == [kind |-> "return", exc |-> "", status_code |-> 0, retcode |-> None, value |-> v]

\* calling None: 'NoneType' object is not callable
TypeError == [kind |-> "raise", exc |-> "TypeError", status_code |-> 0, retcode |-> None, value |-> None]

\* lines 53-58 of _ApiClient.__call__
Decode(resp) ==
  IF Ok(resp.status_code)
  THEN IF DictGet(resp.body, "status") = "failed"
       THEN ErrorFor(resp.status_code, DictGet(resp.body, "retcode"))
       ELSE Returned(DictGet(resp.body, "data"))
  ELSE ErrorFor(resp.status_code, None)

\* lines 44-51 of _ApiClient.__call__: the request handed to requests.post
Post(node, kwargs) ==
  [url |-> node.url,
   authorization |-> IF Truthy(node.token) THEN <<"Token ", node.token>> ELSE <<>>,
   json |-> kwargs]

\* value(**kwargs), value being an _ApiClient or None
Invoke(value, kwargs, resp) ==
  IF value.kind = "None"
  THEN [posts |-> <<>>, outcome |-> TypeError]
  ELSE [posts |-> <<Post(value, kwargs)>>, outcome |-> Decode(resp)]

\* context.get(k) is true: the key is there with a non-zero id
CtxTruthy(ctx, k) == k \in DOMAIN ctx /\ ctx[k] # 0

\* the reply contexts: each id absent, 0 or 7
ContextOf(g, d, u) ==
  [k \in (IF g < 0 THEN {} ELSE {"group_id"}) \cup (IF d < 0 THEN {} ELSE {"discuss_id"})
          \cup (IF u < 0 THEN {} ELSE {"user_id"}) |->
     IF k = "group_id" THEN g ELSE IF k = "discuss_id" THEN d ELSE u]

Contexts == {ContextOf(g, d, u) : g \in {-1, 0, 7}, d \in {-1, 0, 7}, u \in {-1, 0, 7}}

\* a send that asks for user_id first
SendSelectUserFirst(ctx) ==
  IF CtxTruthy(ctx, "user_id") THEN [endpoint |-> <<"send_private_msg">>, key |-> "user_id"]
  ELSE IF CtxTruthy(ctx, "discuss_id")
       THEN [endpoint |-> <<"send_discuss_msg">>, key |-> "discuss_id"]
  ELSE IF CtxTruthy(ctx, "group_id")
       THEN [endpoint |-> <<"send_group_msg">>, key |-> "group_id"]
  ELSE [endpoint |-> <<>>, key |-> ""]

\* lines 163-171 of CQHttp.send: the endpoint and the id it is called with
SendSelect(ctx) ==
  IF CtxTruthy(ctx, "group_id") THEN [endpoint |-> <<"send_group_msg">>, key |-> "group_id"]
  ELSE IF CtxTruthy(ctx, "discuss_id")
       THEN [endpoint |-> <<"send_discuss_msg">>, key |-> "discuss_id"]
  ELSE IF CtxTruthy(ctx, "user_id")
       THEN [endpoint |-> <<"send_private_msg">>, key |-> "user_id"]
  ELSE [endpoint |-> <<>>, key |-> ""]

Server == <<secret, groups, handlers, nregs, usedGroups, Dispatch, reg, plain>>

\* node = nodes[i].<item>, the application keeping the result
GetAttr(i, item) ==
  /\ Len(nodes) < MaxNodes
  /\ LET v == GetAttrValue(nodes[i].node, item)
     IN /\ nodes' = IF v.kind = "node"
                    THEN Append(nodes, [node |-> v, chain |-> Append(nodes[i].chain, item)])
                    ELSE nodes
        /\ last' = [NoCall EXCEPT !.op = "getattr", !.target = i, !.endpoint = item,
                                  !.got = v]
  /\ UNCHANGED Server

\* bot.<item>(**kwargs): an endpoint of the bot used at once
CallEndpoint(item, resp) ==
  /\ LET i == 1
         v == GetAttrValue(nodes[i].node, item)
         r == Invoke(v, EmptyDict, resp)
     IN last' = [NoCall EXCEPT !.op = "endpoint", !.target = i, !.endpoint = item,
                               !.resp = resp, !.got = v, !.posts = r.posts,
                               !.outcome = r.outcome]
  /\ UNCHANGED <<Server, nodes>>

\* nodes[i](**kwargs) on a node that has a URL to post to
CallNode(i, resp) ==
  /\ UrlTruthy(nodes[i].node.url)
  /\ LET r == Invoke(nodes[i].node, EmptyDict, resp)
     IN last' = [NoCall EXCEPT !.op = "call", !.target = i, !.resp = resp,
                               !.got = nodes[i].node, !.posts = r.posts,
                               !.outcome = r.outcome]
  /\ UNCHANGED <<Server, nodes>>

\* CQHttp.send(context, message)
Send(ctx, resp) ==
  /\ LET sel == SendSelect(ctx)
     IN IF sel.endpoint = <<>>
        THEN last' = [NoCall EXCEPT !.op = "send", !.target = 1, !.ctx = ctx, !.resp = resp,
                                   !.outcome = Returned(None)]
        ELSE LET v == GetAttrValue(nodes[1].node, sel.endpoint)
                 kwargs == [k \in {sel.key, "message"} |->
                              IF k = "message" THEN "hi" ELSE ctx[sel.key]]
                 r == Invoke(v, kwargs, resp)
             IN last' = [NoCall EXCEPT !.op = "send", !.target = 1, !.ctx = ctx,
                                       !.resp = resp, !.endpoint = sel.endpoint, !.got = v,
                                       !.posts = r.posts, !.outcome = r.outcome]
  /\ UNCHANGED <<Server, nodes>>

\* CQHttp.__init__ with any api_root and access_token
InitApi ==
  /\ secret = None
  /\ groups = <<>>
  /\ handlers = EmptyDict
  /\ nregs = 0
  /\ usedGroups = {}
  /\ pc = "idle"
  /\ request = NoRequest
  /\ post_type = None
  /\ handler_key = None
  /\ pos = 0
  /\ invoked = <<>>
  /\ response = NoResponse
  /\ \E api_root \in ApiRoots, access_token \in Tokens :
       nodes = <<[node |-> ApiClient(api_root, access_token), chain |-> <<>>]>>
  /\ last = NoCall
  /\ reg = NoReg
  /\ plain = {}
  /\ walk = <<>>

NextApi ==
  \/ \E i \in 1..Len(nodes), item \in Names : GetAttr(i, item)
  \/ \E item \in Names, resp \in HttpResponses : CallEndpoint(item, resp)
  \/ \E i \in 1..Len(nodes), resp \in HttpResponses : CallNode(i, resp)
  \/ \E ctx \in Contexts, resp \in SendResponses : Send(ctx, resp)

SpecApi == InitApi /\ [][NextApi]_vars

TypeOK ==
  /\ pc \in {"idle", "scan", "done"}
  /\ pos \in 0..Len(groups)

\* ------------------------------------------------------------------ claims
\* the bucket of (group g, post-category c); empty when it was never created
BucketOf(g, c) ==
  IF g \in DOMAIN handlers /\ c \in DOMAIN handlers[g] THEN handlers[g][c] ELSE EmptyDict

\* group g holds a handler for the payload in flight: under its exact
\* discriminator or under the wildcard
HasMatch(g) ==
  handler_key \in DOMAIN BucketOf(g, post_type) \/ "*" \in DOMAIN BucketOf(g, post_type)

\* the handler's result made dispatch continue: the pass test succeeded
PassMarked(r) == ~PassTestRaises(r) /\ PassIn(r)

\* the groups the loop has been through
Visited == {groups[i] : i \in 1..pos}

InvokedGroups == {invoked[i].group : i \in 1..Len(invoked)}

C2_EarlyExit ==
  \A i \in 1..Len(invoked) :
    ~PassMarked(invoked[i].result) =>
      /\ i = Len(invoked)
      /\ pc = "done"
      /\ response = Return(invoked[i].result)

\* C3: the handler invoked for a group is the one under the payload's exact
\* discriminator when the bucket has one, else the bucket's wildcard handler;
\* a visited group that has neither is skipped.
C3_ExactThenWildcard ==
  pc \in {"scan", "done"} =>
    /\ \A i \in 1..Len(invoked) :
         LET b == BucketOf(invoked[i].group, post_type)
         IN IF handler_key \in DOMAIN b
            THEN invoked[i].handler = b[handler_key]
            ELSE "*" \in DOMAIN b /\ invoked[i].handler = b["*"]
    /\ \A g \in Visited : ~HasMatch(g) => g \notin InvokedGroups

\* a bucket holding different handlers under the exact key and the wildcard
\* was looked up
C3_Witness ==
  /\ Len(invoked) >= 1
  /\ LET b == BucketOf(invoked[1].group, post_type)
     IN /\ handler_key # "*"
        /\ handler_key \in DOMAIN b
        /\ "*" \in DOMAIN b
        /\ b[handler_key] # b["*"]

\* C4 as stated: at most one invocation per group, and no handler invoked
\* twice for the request.
C4_NoHandlerTwice ==
  \A i, j \in 1..Len(invoked) :
    i < j => (invoked[i].group # invoked[j].group /\ invoked[i].handler # invoked[j].handler)

\* C4, amended: at most one invocation per group (so a group's wildcard handler
\* is not invoked after its exact-key handler passed), and no more invocations
\* than groups visited.
C4_OnePerGroup ==
  /\ \A i, j \in 1..Len(invoked) : i < j => invoked[i].group # invoked[j].group
  /\ Len(invoked) <= pos

\* the exact-key handler of a group that also has a wildcard handler passed,
\* and the loop went on
C4_Witness ==
  /\ Len(invoked) >= 1
  /\ pos >= 2
  /\ PassMarked(invoked[1].result)
  /\ LET b == BucketOf(invoked[1].group, post_type)
     IN handler_key # "*" /\ handler_key \in DOMAIN b /\ "*" \in DOMAIN b

\* the payload lacks post_type, has an unknown one, or lacks a non-empty
\* discriminator of its post-category
Malformed(json) ==
  \/ "post_type" \notin DOMAIN json
  \/ json["post_type"] \notin {"message", "event", "request"}
  \/ LET f == CASE json["post_type"] = "message" -> "message_type"
                 [] json["post_type"] = "event" -> "event"
                 [] OTHER -> "request_type"
     IN f \notin DOMAIN json \/ json[f] = ""

\* C5: a malformed payload ends in the 400 outcome and no handler is invoked,
\* whatever the registry holds.
C5_ProtocolError ==
  (pc # "idle" /\ Malformed(request.json)) =>
    /\ pc = "done"
    /\ response = Abort(400)
    /\ invoked = <<>>

\* a message without discriminator was rejected although a group holds a
\* wildcard message handler
C5_Witness ==
  /\ response = Abort(400)
  /\ DictGet(request.json, "post_type") = "message"
  /\ \E g \in DOMAIN handlers :
       "message" \in DOMAIN handlers[g] /\ "*" \in DOMAIN handlers[g]["message"]

\* a secret is configured when one was given and is not empty
Configured == secret # None /\ secret # ""

\* C6: with a secret configured, a request without X-Signature ends in 401
\* and one whose X-Signature differs from sha1= followed by the keyed hash of
\* the body ends in 403; without a secret no request ends in 401 or 403.
C6_SignatureGate ==
  pc # "idle" =>
    /\ (Configured /\ XSignature \notin DOMAIN request.headers) =>
         (pc = "done" /\ response = Abort(401))
    /\ (Configured /\ XSignature \in DOMAIN request.headers
          /\ request.headers[XSignature] # Signed(secret, request.json)) =>
         (pc = "done" /\ response = Abort(403))
    /\ ~Configured => response.code \notin {401, 403}

\* a request signed with another key was refused
C6_Witness ==
  /\ Configured
  /\ XSignature \in DOMAIN request.headers
  /\ response = Abort(403)

\* C7: the group list is strictly ascending (hence without duplicates) and
\* holds exactly the group values registrations were called with.
C7_GroupsSorted ==
  /\ \A i, j \in 1..Len(groups) : i < j => groups[i] < groups[j]
  /\ {groups[i] : i \in 1..Len(groups)} = usedGroups

\* two different groups have been registered
C7_Witness == Len(groups) >= 2 /\ nregs >= 2

\* the registration step of on_<ptype>(*types, group=group)(func)
C8_Step(ptype, types, group, func) ==
  Register(ptype, types, group, func) =>
    /\ \A k \in RegKeys(types) : handlers'[group][ptype][k] = func
    /\ HandlersAfter(handlers', groups', ptype, types, group, func) = handlers'
    /\ GroupsAfter(groups', group) = groups'

\* C8: after a registration every key it names holds the handler just
\* registered, whatever it held before, and repeating the same registration
\* leaves the registry as it is.
C8_LastRegistrationWins ==
  [][\A ptype \in PostTypes, types \in TypeTuples, group \in GroupVals, func \in Funcs :
       C8_Step(ptype, types, group, func)]_vars

\* the number of (group, post-category, key) entries holding a handler
EntryCount ==
  Cardinality({t \in (DOMAIN handlers) \X PostTypes \X {"private", "group", "*"} :
                 t[3] \in DOMAIN BucketOf(t[1], t[2])})

\* the second registration hit the entry the first one filled
C8_Witness == nregs = 2 /\ EntryCount = 1

\* C9: a step of _handle leaves the group list and the bucket structure as
\* they were.
C9_DispatchWritesNothing ==
  [][(pc # "idle" \/ pc' # "idle") => registry' = registry]_vars

\* C10: a result that is not a mapping ends dispatch at its group with the
\* empty response; it neither raises nor lets the next group run.
C10_NonMappingTerminates ==
  \A i \in 1..Len(invoked) :
    invoked[i].result.kind # "dict" =>
      /\ i = Len(invoked)
      /\ pc = "done"
      /\ response = Return(Str(<<>>))

\* Spec with the loop of _handle always resumed: a handler that is called
\* returns, and the thread serving the request keeps running.
SpecLive == Spec /\ WF_vars(Iterate)

\* C11: the dispatch of a valid payload ends, after at most one invocation
\* per registered group; when it ends with every invoked handler having
\* returned a pass-marked result, every group was gone through and the
\* response is the empty one.
C11_Terminates ==
  /\ [](Len(invoked) <= pos /\ pos <= Len(groups))
  /\ []((pc = "done" /\ response.outcome # "abort"
           /\ \A i \in 1..Len(invoked) : PassMarked(invoked[i].result)) =>
          (pos = Len(groups) /\ response = Return(Str(<<>>))))
  /\ (pc = "scan" ~> pc = "done")

\* a dispatch over two groups ended with the empty response after both
\* handlers passed
C11_Witness ==
  /\ pc = "done"
  /\ Len(invoked) = 2
  /\ PassMarked(invoked[2].result)
  /\ response = Return(Str(<<>>))

\* ------------------------------------------------------------ API claims
\* the last operation posted a request and decoded the answer
Posted == last.posts # <<>>

RemoteError(o) == o.kind = "raise" /\ o.exc \in {"Error", "Error102"}

\* what is common to the claim and its amendment: a failed body raises a
\* remote error with the status and the retcode, any other body returns
\* its data, a status outside the success range raises the generic error
\* with the status alone
DecodingFrame ==
  Posted =>
    LET sc == last.resp.status_code
        body == last.resp.body
        o == last.outcome
    IN /\ (Ok(sc) /\ DictGet(body, "status") = "failed") =>
            (RemoteError(o) /\ o.status_code = sc /\ o.retcode = DictGet(body, "retcode"))
       /\ (Ok(sc) /\ DictGet(body, "status") # "failed") =>
            o = Returned(DictGet(body, "data"))
       /\ ~Ok(sc) => o = Error(sc, None)

\* C12 as stated: remote response decoding, where a failed body raises the
\* named 102 subtype exactly when its retcode is 102, for any status in the
\* success range.
C12_Subtype102AnyStatus ==
  /\ DecodingFrame
  /\ (Posted /\ Ok(last.resp.status_code) /\ DictGet(last.resp.body, "status") = "failed") =>
       (last.outcome.exc = "Error102" <=> DictGet(last.resp.body, "retcode") = "102")

\* C12 amended: remote response decoding, where a failed body raises the
\* named 102 subtype exactly when the status is 200 and the retcode is 102;
\* a failed body with retcode 102 under another success status raises the
\* generic remote error.
C12_Subtype102On200 ==
  /\ DecodingFrame
  /\ (Posted /\ Ok(last.resp.status_code) /\ DictGet(last.resp.body, "status") = "failed") =>
       (last.outcome.exc = "Error102" <=>
          (last.resp.status_code = 200 /\ DictGet(last.resp.body, "retcode") = "102"))

C12_Witness ==
  /\ Posted
  /\ last.resp.status_code = 201
  /\ DictGet(last.resp.body, "status") = "failed"
  /\ DictGet(last.resp.body, "retcode") = "102"
  /\ last.outcome = Error(201, "102")

\* root + "/" + n1 + ... + "/" + nk
RECURSIVE ChainUrl(_, _)
ChainUrl(root, chain) ==
  IF chain = <<>> THEN root
  ELSE ChainUrl(root, SubSeq(chain, 1, Len(chain) - 1)) \o <<"/">> \o chain[Len(chain)]

\* a step that hands out a node adds it and leaves every earlier node as it was
C13_Step ==
  /\ Len(nodes') >= Len(nodes)
  /\ \A i \in 1..Len(nodes) : nodes'[i] = nodes[i]
  /\ (last'.op = "getattr" /\ last' # last /\ UrlTruthy(nodes[last'.target].node.url)
        /\ Len(nodes) < MaxNodes) =>
       (Len(nodes') = Len(nodes) + 1 /\ nodes'[Len(nodes')].node = last'.got)

\* C13: proxy chaining. Every node reached from the configured root by the
\* attribute names n1..nk has the URL root/n1/.../nk and the root's access
\* token, and an attribute access creates a new node and leaves the URL and
\* token of the parent and of every earlier node unchanged.
C13_ProxyChaining ==
  /\ [](\A i \in 1..Len(nodes) :
          /\ nodes[i].node.url = ChainUrl(nodes[1].node.url, nodes[i].chain)
          /\ nodes[i].node.token = nodes[1].node.token)
  /\ [][C13_Step]_vars

C13_Witness ==
  /\ Len(nodes) = 3
  /\ nodes[3].chain = <<<<"get_status">>, <<"send_group_msg">>>>
  /\ nodes[3].node.url = <<"h", "/", "get_status", "/", "send_group_msg">>
  /\ nodes[3].node.token = "t"
  /\ nodes[2].node.url = <<"h", "/", "get_status">>

\* the last operation used an endpoint of a client built without a root URL
UnconfiguredUse ==
  /\ nodes[1].node.url = NoUrl
  /\ \/ last.op = "endpoint"
     \/ last.op = "send" /\ SendSelect(last.ctx).endpoint # <<>>

\* C14: an unconfigured client is a safe no-op. On a client built without a
\* root URL attribute access returns nothing, and using an endpoint on it,
\* directly or through send with a context that has an id, issues no
\* outbound request and raises no error.
C14_UnconfiguredNoOp ==
  /\ (nodes[1].node.url = NoUrl /\ last.op = "getattr") => last.got = NoneValue
  /\ UnconfiguredUse =>
       (last.got = NoneValue /\ last.posts = <<>> /\ last.outcome.kind # "raise")

\* the id is in the context / is in the context and is not 0
Present(ctx, k) == k \in DOMAIN ctx

PresentTruthy(ctx, k) == k \in DOMAIN ctx /\ ctx[k] # 0

\* the one post of a send to <root>/<endpoint> with the id taken from the
\* context under key k
SendPost(endpoint, k) ==
  <<[url |-> nodes[1].node.url \o <<"/">> \o endpoint,
     authorization |-> IF Truthy(nodes[1].node.token)
                       THEN <<"Token ", nodes[1].node.token>> ELSE <<>>,
     json |-> [x \in {k, "message"} |-> IF x = "message" THEN "hi" ELSE last.ctx[k]]]>>

\* C15 as stated, on a configured client: send makes at most one outbound
\* call, group-send if group_id is present, else discussion-send if
\* discuss_id is present, else private-send if user_id is present, else no
\* call; a context with group_id present never reaches the other two.
C15_PrecedenceByPresence ==
  (last.op = "send" /\ UrlTruthy(nodes[1].node.url)) =>
    /\ Len(last.posts) <= 1
    /\ last.posts =
         IF Present(last.ctx, "group_id") THEN SendPost(<<"send_group_msg">>, "group_id")
         ELSE IF Present(last.ctx, "discuss_id")
              THEN SendPost(<<"send_discuss_msg">>, "discuss_id")
         ELSE IF Present(last.ctx, "user_id")
              THEN SendPost(<<"send_private_msg">>, "user_id")
         ELSE <<>>

\* C15 amended: send makes at most one outbound call, chosen by the fixed
\* precedence over the ids that are present with a true (non-zero) value:
\* group-send, else discussion-send, else private-send, else no call and
\* nothing returned; an id that is present but 0 counts as absent; a true
\* group_id never reaches the other two. On a client without a usable root
\* URL the chosen endpoint is nothing, no call goes out and TypeError is
\* raised.
C15_PrecedenceByTruth ==
  last.op = "send" =>
    LET want == IF PresentTruthy(last.ctx, "group_id")
                THEN SendPost(<<"send_group_msg">>, "group_id")
                ELSE IF PresentTruthy(last.ctx, "discuss_id")
                     THEN SendPost(<<"send_discuss_msg">>, "discuss_id")
                ELSE IF PresentTruthy(last.ctx, "user_id")
                     THEN SendPost(<<"send_private_msg">>, "user_id")
                ELSE <<>>
    IN /\ Len(last.posts) <= 1
       /\ UrlTruthy(nodes[1].node.url) => last.posts = want
       /\ (~UrlTruthy(nodes[1].node.url) /\ want # <<>>) =>
            (last.posts = <<>> /\ last.outcome = TypeError)
       /\ want = <<>> => (last.posts = <<>> /\ last.outcome = Returned(None))
       /\ (PresentTruthy(last.ctx, "group_id") /\ last.posts # <<>>) =>
            last.endpoint = <<"send_group_msg">>

C15_Witness ==
  /\ last.op = "send"
  /\ last.ctx = ContextOf(0, 7, 7)
  /\ last.posts = <<[url |-> <<"h", "/", "send_discuss_msg">>,
                     authorization |-> <<"Token ", "t">>,
                     json |-> [x \in {"discuss_id", "message"} |->
                                IF x = "message" THEN "hi" ELSE 7]]>>

\* ---------------------------------------------------- concurrency claims
\* C16: registration is atomic with respect to dispatch. Whatever the
\* interleaving of a registration that introduces a new group with a
\* dispatch, the dispatch never comes to a group of the priority list whose
\* bucket set has not been created, and so never fails on it.
C16_RegistrationAtomic ==
  /\ plain = {}
  /\ response # RaiseKeyError
  /\ \A i \in 1..Len(walk) : walk[i] \in DOMAIN handlers

\* C17: whatever the interleaving of registrations with a dispatch that
\* walks the list by position, the groups the dispatch visits are strictly
\* ascending, hence each visited at most once.
C17_AscendingWalk ==
  \A i \in 1..Len(walk) : \A j \in 1..Len(walk) : i < j => walk[i] < walk[j]

\* ------------------------------------------------------------ wildcard claim
\* a registration under explicit match-keys leaves the wildcard slot of its
\* bucket as it was
C18_Step(ptype, types, group, func) ==
  (Register(ptype, types, group, func) /\ Len(types) > 0) =>
    DictGet(handlers'[group][ptype], "*") = DictGet(BucketOf(group, ptype), "*")

\* the handler called in group g was found under the payload's discriminator
ExactHit(g) == handler_key \in DOMAIN BucketOf(g, post_type)

\* C18: the wildcard is a reserved key distinct from every real sub-type
\* string. No registration under explicit match-keys writes the wildcard
\* slot, and no handler is found as an exact-key match of the wildcard
\* slot, whatever string the payload's discriminator is.
C18_WildcardReserved ==
  /\ [](\A i \in 1..Len(invoked) : ExactHit(invoked[i].group) => handler_key # "*")
  /\ [][\A d \in Decorations, group \in GroupVals, func \in Funcs :
          C18_Step(d.ptype, d.types, group, func)]_vars

\* ---------------------------------------------------------- gate ordering
\* the request in flight carries no signature / one that is not the keyed
\* hash of its body under the secret
SignatureMissing == XSignature \notin DOMAIN request.headers

SignatureWrong ==
  XSignature \in DOMAIN request.headers
    /\ request.headers[XSignature] # Signed(secret, request.json)

\* C19: gate ordering. The signature check comes before classification and
\* classification before any handler: with a secret configured a malformed
\* payload without signature ends in 401 and one with a wrong signature in
\* 403, never in 400, the payload not having been classified; a malformed
\* payload that passes the signature check ends in 400; and a request that
\* ends in 400, 401 or 403 has invoked no handler.
C19_GateOrdering ==
  pc # "idle" =>
    /\ (Configured /\ Malformed(request.json) /\ SignatureMissing) => response = Abort(401)
    /\ (Configured /\ Malformed(request.json) /\ SignatureWrong) => response = Abort(403)
    /\ response.code \in {401, 403} => (post_type = None /\ handler_key = None)
    /\ (Malformed(request.json) /\ (~Configured \/ ~(SignatureMissing \/ SignatureWrong))) =>
         response = Abort(400)
    /\ response.outcome = "abort" =>
         (response.code \in {400, 401, 403} /\ invoked = <<>> /\ walk = <<>> /\ pc = "done")

\* a malformed payload with a wrong signature was refused with 403 although
\* a handler is registered
C19_Witness ==
  /\ Configured
  /\ Malformed(request.json)
  /\ SignatureWrong
  /\ response = Abort(403)
  /\ groups # <<>>

\* -------------------------------------------------------- registration frame
\* the handler under (g, c, k) in the registry hs, None when there is none
EntryOf(hs, g, c, k) ==
  IF g \in DOMAIN hs /\ c \in DOMAIN hs[g] /\ k \in DOMAIN hs[g][c] THEN hs[g][c][k] ELSE None

MatchKeys == {"private", "group", "*"}

C20_Step(ptype, types, group, func) ==
  Register(ptype, types, group, func) =>
    \A g \in GroupVals, c \in PostTypes, k \in MatchKeys :
      IF g = group /\ c = ptype /\ k \in RegKeys(types)
      THEN EntryOf(handlers', g, c, k) = func
      ELSE EntryOf(handlers', g, c, k) = EntryOf(handlers, g, c, k)

\* C20: registration frame. Registering a handler for group g, post-category
\* c and keys K sets the entries (g, c, k) for k in K, or the wildcard entry
\* of (g, c) when K is empty, and leaves every other entry as it was: those
\* of other groups, of other post-categories of g and of other keys of
\* (g, c), also when g was known before.
C20_RegistrationFrame ==
  [][\A ptype \in PostTypes, types \in TypeTuples, group \in GroupVals, func \in Funcs :
       C20_Step(ptype, types, group, func)]_vars

\* a second registration into a known group kept the entry of the first in
\* another post-category
C20_Witness ==
  /\ nregs = 2
  /\ Len(groups) = 1
  /\ EntryOf(handlers, groups[1], "message", "private") # None
  /\ EntryOf(handlers, groups[1], "event", "*") # None

====
